---- MODULE Spec2Model ----
(***************************************************************************)
(* Model of .github/scripts/sync_labels.py: the organisation-wide label    *)
(* synchroniser.  main() reads the desired labels, lists the repositories, *)
(* and for each repository runs sync_labels (create/update) followed by    *)
(* cleanup_labels (usage checks, delete).  Every remote call goes through  *)
(* api(); one action of the model is one api() request together with the   *)
(* code that consumes its answer.                                          *)
(*                                                                         *)
(* JSON values: strings are TLA+ strings, JSON null / a missing key is the *)
(* string None, Python's bool|None results are "True"/"False"/None.        *)
(***************************************************************************)
EXTENDS Integers, Sequences, FiniteSets, TLC

\* ---------------------------------------------------------------- bounds
\* largest number of entries the organisation's repository listing holds
MaxRepos == 2
\* largest number of labels a repository's label listing holds
MaxLabels == 2

\* ------------------------------------------------------------- constants
\* p["per_page"] = 100 in paged()
PerPage == 100

None == "None"

\* Python truthiness of a JSON string-or-null value
Falsy(v) == v \in {None, ""}

\* str.lower() on the colour strings of the model's label universe
Lower(s) ==
  CASE s = "D73A4A" -> "d73a4a"
    [] s = "0075CA" -> "0075ca"
    [] s = "FFFFFF" -> "ffffff"
    [] OTHER -> s

\* the content of .github/org-labels.json once json.load has parsed it
TargetLabels ==
  << [name |-> "bug",  color |-> "d73a4a", description |-> "Bug"],
     [name |-> "docs", color |-> "0075CA", description |-> ""] >>

\* target_label_names = [l["name"] for l in target_labels]
TargetLabelNames(tl) == { tl[i].name : i \in DOMAIN tl }

\* label objects a repository's GET /labels may hold (the remote side)
Catalogue ==
  << [name |-> "wontfix", color |-> "ffffff", description |-> None],
     [name |-> "bug",     color |-> "D73A4A", description |-> "Bug"],
     [name |-> "bug",     color |-> "ffffff", description |-> "Bug"],
     [name |-> "docs",    color |-> "0075ca", description |-> None],
     [name |-> "docs",    color |-> "0075ca", description |-> "Docs"],
     [name |-> "stale",   color |-> "ededed", description |-> "Stale"],
     [name |-> "ghost",   color |-> None,     description |-> ""] >>

RECURSIVE PickSeq(_, _)
\* the entries of sequence s at the indices of set S, in index order
PickSeq(s, S) ==
  IF S = {} THEN << >>
  ELSE LET m == CHOOSE x \in S : \A y \in S : x <= y
       IN  << s[m] >> \o PickSeq(s, S \ {m})

\* the label listings a repository can have: label names are unique
LabelListings ==
  { PickSeq(Catalogue, S) : S \in
      { T \in SUBSET (DOMAIN Catalogue) :
          /\ Cardinality(T) <= MaxLabels
          /\ \A a, b \in T : Catalogue[a].name = Catalogue[b].name => a = b } }

RepoName(i) ==
  CASE i = 1 -> "org/zeta"
    [] i = 2 -> "org/alpha"
    [] i = 3 -> "org/mid"
    [] OTHER -> "org/other"

\* the organisation's repository listings: full_name and archived flag
RepoListings ==
  UNION { { [i \in 1..n |-> [full_name |-> RepoName(i), archived |-> f[i]]] :
              f \in [1..n -> {"True", "False"}] } : n \in 0..MaxRepos }

\* ------------------------------------------------- api() return values
\* what api() returns: None (HTTP error, transport error, empty body,
\* undecodable body) or the decoded JSON value
ApiNone      == [kind |-> "None", truthy |-> FALSE, items |-> << >>,
                 errors |-> FALSE, countOk |-> FALSE, count |-> 0]
ApiList(xs)  == [kind |-> "list", truthy |-> Len(xs) > 0, items |-> xs,
                 errors |-> FALSE, countOk |-> FALSE, count |-> 0]
\* a JSON object, tr its truthiness ({} is falsy); to paged and to
\* has_issues_or_prs any JSON value that is no list looks like this
ApiOther(tr) == [kind |-> "dict", truthy |-> tr, items |-> << >>,
                 errors |-> FALSE, countOk |-> FALSE, count |-> 0]
\* a GraphQL answer object: errors present?, discussionCount readable?, count
ApiGraph(e, ok, n) == [kind |-> "dict", truthy |-> TRUE, items |-> << >>,
                 errors |-> e, countOk |-> ok, count |-> n]

Min(a, b) == IF a <= b THEN a ELSE b

\* the page-th page of per_page entries of the remote collection data
Slice(data, page) ==
  SubSeq(data, (page - 1) * PerPage + 1, Min(page * PerPage, Len(data)))

\* answers api() can give to one page request of paged()
PageResponses(data, page) ==
  { ApiNone, ApiOther(TRUE), ApiOther(FALSE), ApiList(Slice(data, page)) }

\* answers to GET /repos/{repo}/issues?labels=..&per_page=1
IssueResponses ==
  { ApiNone, ApiOther(TRUE), ApiList(<< >>), ApiList(<< "issue" >>) }

\* answers to the GraphQL discussion search
DiscussionResponses ==
  { ApiNone, ApiList(<< >>), ApiGraph(TRUE, TRUE, 0), ApiGraph(FALSE, FALSE, 0),
    ApiGraph(FALSE, TRUE, 0), ApiGraph(FALSE, TRUE, 1) }

\* answers to a create / update / delete request (discarded by the caller)
MutationResponses == { ApiNone, ApiOther(TRUE) }


\* ------------------------------------------------------- pure functions
\* a slip in paged: after a failed page request the pages read so far are
\* returned
Paged_KeepPartial(out, batch) ==
  IF batch.kind = "None" THEN [more |-> FALSE, ok |-> TRUE, items |-> out]
  ELSE IF ~batch.truthy THEN [more |-> FALSE, ok |-> TRUE, items |-> out]
  ELSE IF batch.kind # "list" THEN [more |-> FALSE, ok |-> TRUE, items |-> out]
  ELSE [more |-> TRUE, ok |-> TRUE, items |-> out \o batch.items]

\* one iteration of paged()'s loop on the answer batch: out is the list so
\* far; ok = FALSE is the None result, more = TRUE asks for the next page
Paged(out, batch) ==
  IF batch.kind = "None" THEN [more |-> FALSE, ok |-> FALSE, items |-> << >>]
  ELSE IF ~batch.truthy THEN [more |-> FALSE, ok |-> TRUE, items |-> out]
  ELSE IF batch.kind # "list" THEN [more |-> FALSE, ok |-> FALSE, items |-> << >>]
  ELSE [more |-> TRUE, ok |-> TRUE, items |-> out \o batch.items]

\* a slip in list_repos: the filter on "archived" is missing
ListRepos_KeepArchived(r) ==
  IF ~r.ok THEN << >>
  ELSE [i \in DOMAIN r.items |-> r.items[i].full_name]

\* list_repos: [] when paged gave None, else the full_name of the entries
\* whose "archived" is not truthy
ListRepos(r) ==
  IF ~r.ok THEN << >>
  ELSE LET keep == { i \in DOMAIN r.items : r.items[i].archived # "True" }
           kept == PickSeq(r.items, keep)
       IN  [i \in DOMAIN kept |-> kept[i].full_name]

\* list_labels: [] when paged gave None, else the entries with a truthy name
\* and colour, description None replaced by ""
ListLabels(r) ==
  IF ~r.ok THEN << >>
  ELSE LET keep == { i \in DOMAIN r.items :
                       ~Falsy(r.items[i].name) /\ ~Falsy(r.items[i].color) }
           kept == PickSeq(r.items, keep)
       IN  [i \in DOMAIN kept |->
              [name |-> kept[i].name, color |-> kept[i].color,
               description |-> IF Falsy(kept[i].description) THEN ""
                               ELSE kept[i].description]]

\* has_issues_or_prs on api()'s answer
HasIssuesOrPrs(data) ==
  IF data.kind = "None" THEN None
  ELSE IF data.kind # "list" THEN None
  ELSE IF Len(data.items) > 0 THEN "True" ELSE "False"

\* has_discussions raises AttributeError on data.get when the answer is a
\* JSON value without .get (a list, a string, a number)
DiscussionsRaises(data) == data.kind \notin {"None", "dict"}

\* has_discussions on api()'s answer, when it returns
HasDiscussions(data) ==
  IF data.kind = "None" \/ data.errors THEN None
  ELSE IF ~data.countOk THEN None
  ELSE IF data.count > 0 THEN "True" ELSE "False"

\* existing_labels = {l["name"]: l ...}; name in existing_labels
InExisting(existing, name) == \E i \in DOMAIN existing : existing[i].name = name

\* existing_labels[name]: a later entry of the same name replaces an earlier
Existing(existing, name) ==
  existing[CHOOSE i \in DOMAIN existing :
             /\ existing[i].name = name
             /\ \A j \in DOMAIN existing : existing[j].name = name => j <= i]

\* a slip in the update test: the colours are compared as they are
NeedsUpdate_CaseSensitive(ex, target) ==
  \/ ex.color # target.color
  \/ ex.description # target.description

\* the test guarding label_update in sync_labels
NeedsUpdate(ex, target) ==
  \/ Lower(ex.color) # Lower(target.color)
  \/ ex.description # target.description

\* a slip in sync_labels: a label that is missing is updated, not created
SyncStep_UpdateMissing(existing, target) ==
  IF \E i \in DOMAIN existing : existing[i].name = target.name
  THEN "none"
  ELSE "update"

\* what sync_labels does for one target: "create", "update" or "none"
SyncStep(existing, target) ==
  IF InExisting(existing, target.name)
  THEN IF NeedsUpdate(Existing(existing, target.name), target)
       THEN "update" ELSE "none"
  ELSE "create"

\* a slip in extra_labels: the test against the configured names is missing
ExtraLabels_NoFilter(existing, names) ==
  [i \in DOMAIN existing |-> existing[i].name]

\* extra_labels of cleanup_labels
ExtraLabels(existing, names) ==
  LET keep == { i \in DOMAIN existing : existing[i].name \notin names }
      kept == PickSeq(existing, keep)
  IN  [i \in DOMAIN kept |-> kept[i].name]

\* a slip in checks_failed: the discussion check's None is not looked at
ChecksFailed_IssuesOnly(issues, discussions) == issues = None

\* checks_failed of cleanup_labels
ChecksFailed(issues, discussions) == issues = None \/ discussions = None

\* Python's "not x" for x in bool|None
Not(x) == x # "True"

\* a slip in the deletion test: the two branches are the wrong way round
Decision_Swapped(issues, discussions) ==
  IF issues = None \/ discussions = None THEN "skip"
  ELSE IF issues # "True" /\ discussions # "True" THEN "keep"
  ELSE "delete"

\* a slip in the branch taken: a result of the issue check keeps the label
\* whatever the discussion check returned
Decision_IssuesFirst(issues, discussions) ==
  IF issues = "True" THEN "keep"
  ELSE IF issues = None \/ discussions = None THEN "skip"
  ELSE IF discussions # "True" THEN "delete"
  ELSE "keep"

\* the branch cleanup_labels takes for one label: "skip", "delete" or "keep"
Decision(issues, discussions) ==
  IF ChecksFailed(issues, discussions) THEN "skip"
  ELSE IF Not(issues) /\ Not(discussions) THEN "delete"
  ELSE "keep"


\* ----------------------------------------------------------------- state
VARIABLES
  pc,                     \* where the script is
  env_token,              \* GH_TOKEN / GITHUB_TOKEN is set
  config_ok,              \* .github/org-labels.json exists and parses
  orgListing,             \* remote: the organisation's repository entries
  listing,                \* remote: the label entries the repository held at
                          \* the latest list_labels, until the next request
  target_labels,          \* main: target_labels
  repos,                  \* main: repos
  repoIdx,                \* main: position of the for loop over repos
  page, out,              \* paged: page, out
  api_result,             \* the last api() call returned None, a list or a dict
  existing_labels,        \* sync_labels: existing_labels (in listing order)
  ti,                     \* sync_labels: position of the loop over targets
  extra_labels,           \* cleanup_labels: extra_labels
  li,                     \* cleanup_labels: position of the loop over extras
  used_in_issues_or_prs,  \* cleanup_labels: local of the same name
  used_in_discussions,    \* cleanup_labels: local of the same name
  calls,                  \* label requests sent for the current repository
  lines,                  \* lines printed since the last "Processing" line
  mutated,                \* names sent in a create or update request, whole run
  deleted,                \* names sent in a delete request, whole run
  configReads,            \* number of times the configuration was opened
  repoListCalls,          \* number of times list_repos was called
  repoPages               \* answers to the repository listing's page requests

vars == << pc, env_token, config_ok, orgListing, listing, target_labels, repos,
           repoIdx, page, out, api_result, existing_labels, ti, extra_labels,
           li, used_in_issues_or_prs, used_in_discussions, calls, lines,
           mutated, deleted, configReads, repoListCalls, repoPages >>

\* how one page request of a listing ended, seen from outside: "fail" (api()
\* gave None, or something truthy that is no list), "end" (an empty page) or
\* "batch" (a page of entries)
AnswerKind(resp) ==
  IF resp.kind = "None" THEN "fail"
  ELSE IF ~resp.truthy THEN "end"
  ELSE IF resp.kind = "list" THEN "batch" ELSE "fail"

Call(op, repo, name, color, description, pg, result) ==
  [op |-> op, repo |-> repo, name |-> name, color |-> color,
   description |-> description, page |-> pg, result |-> result]

Line(kind, repo, label) == [kind |-> kind, repo |-> repo, label |-> label]

repo == repos[repoIdx]

Init ==
  /\ pc = "start"
  /\ env_token \in BOOLEAN
  /\ config_ok \in BOOLEAN
  /\ orgListing \in RepoListings
  /\ listing = << >>
  /\ target_labels = << >>
  /\ repos = << >>
  /\ repoIdx = 1
  /\ page = 1
  /\ out = << >>
  /\ api_result = "None"
  /\ existing_labels = << >>
  /\ ti = 1
  /\ extra_labels = << >>
  /\ li = 1
  /\ used_in_issues_or_prs = None
  /\ used_in_discussions = None
  /\ calls = << >>
  /\ lines = << >>
  /\ mutated = {}
  /\ deleted = {}
  /\ configReads = 0
  /\ repoListCalls = 0
  /\ repoPages = << >>

\* main: t = token(); exits with status 2 when no credential is set
Token ==
  /\ pc = "start"
  /\ pc' = IF env_token THEN "load_config" ELSE "exit2"
  /\ UNCHANGED << env_token, config_ok, orgListing, listing, target_labels,
                  repos, repoIdx, page, out, api_result, existing_labels, ti,
                  extra_labels, li, used_in_issues_or_prs, used_in_discussions,
                  calls, lines, mutated, deleted, configReads, repoListCalls,
                  repoPages >>

\* main: open + json.load; an exception here ends the process
LoadConfig ==
  /\ pc = "load_config"
  /\ configReads' = configReads + 1
  /\ IF config_ok
     THEN /\ target_labels' = TargetLabels
          /\ pc' = "list_repos"
     ELSE /\ target_labels' = target_labels
          /\ pc' = "config_error"
  /\ UNCHANGED << env_token, config_ok, orgListing, listing, repos, repoIdx,
                  page, out, api_result, existing_labels, ti, extra_labels, li,
                  used_in_issues_or_prs, used_in_discussions, calls, lines,
                  mutated, deleted, repoListCalls, repoPages >>

\* list_repos: one page request of paged("/orgs/{org}/repos"); on the last
\* one, the filter on "archived" and main's repos = ...
ListReposPage ==
  /\ pc = "list_repos"
  /\ \E resp \in PageResponses(orgListing, page) :
       LET r == Paged(out, resp) IN
       /\ api_result' = resp.kind
       /\ repoPages' = Append(repoPages, AnswerKind(resp))
       /\ repoListCalls' = IF page = 1 THEN repoListCalls + 1 ELSE repoListCalls
       /\ IF r.more
          THEN /\ out' = r.items
               /\ page' = page + 1
               /\ UNCHANGED << pc, repos, repoIdx >>
          ELSE /\ repos' = ListRepos(r)
               /\ repoIdx' = 1
               /\ out' = << >>
               /\ page' = 1
               /\ pc' = "main_loop"
  /\ UNCHANGED << env_token, config_ok, orgListing, listing, target_labels,
                  existing_labels, ti, extra_labels, li, used_in_issues_or_prs,
                  used_in_discussions, calls, lines, mutated, deleted,
                  configReads >>

\* main: the next repository: print "Processing", enter sync_labels (whose
\* own token() call reads the environment main has read already)
ProcessRepo ==
  /\ pc = "main_loop"
  /\ repoIdx <= Len(repos)
  /\ lines' = << Line("Processing", repo, "") >>
  /\ calls' = << >>
  /\ \E l \in LabelListings : listing' = l
  /\ page' = 1
  /\ out' = << >>
  /\ pc' = "sync_list"
  /\ UNCHANGED << env_token, config_ok, orgListing, target_labels, repos,
                  repoIdx, api_result, existing_labels, ti, extra_labels, li,
                  used_in_issues_or_prs, used_in_discussions, mutated, deleted,
                  configReads, repoListCalls, repoPages >>

\* main: the loop is over: print "Done."
Done ==
  /\ pc = "main_loop"
  /\ repoIdx > Len(repos)
  /\ lines' = Append(lines, Line("Done", "", ""))
  /\ pc' = "done"
  /\ UNCHANGED << env_token, config_ok, orgListing, listing, target_labels,
                  repos, repoIdx, page, out, api_result, existing_labels, ti,
                  extra_labels, li, used_in_issues_or_prs, used_in_discussions,
                  calls, mutated, deleted, configReads, repoListCalls,
                  repoPages >>

\* sync_labels: one page request of list_labels; on the last one,
\* existing_labels = {l["name"]: l for l in list_labels(repo, t)}
SyncListLabels ==
  /\ pc = "sync_list"
  /\ \E resp \in PageResponses(listing, page) :
       LET r == Paged(out, resp) IN
       /\ api_result' = resp.kind
       /\ calls' = Append(calls, Call("list_labels", repo, "", "", "", page,
                                      AnswerKind(resp)))
       /\ IF r.more
          THEN /\ out' = r.items
               /\ page' = page + 1
               /\ UNCHANGED << pc, existing_labels, ti >>
          ELSE /\ existing_labels' = ListLabels(r)
               /\ ti' = 1
               /\ out' = << >>
               /\ page' = 1
               /\ pc' = "sync_loop"
  /\ UNCHANGED << env_token, config_ok, orgListing, listing, target_labels, repos,
                  repoIdx, extra_labels, li, used_in_issues_or_prs,
                  used_in_discussions, lines, mutated, deleted, configReads,
                  repoListCalls, repoPages >>

\* sync_labels: one pass of "for target in target_labels"
SyncLabel ==
  /\ pc = "sync_loop"
  /\ ti <= Len(target_labels)
  /\ LET target == target_labels[ti]
         step   == SyncStep(existing_labels, target)
     IN  IF step = "none"
         THEN UNCHANGED << calls, lines, mutated, api_result >>
         ELSE /\ \E resp \in MutationResponses : api_result' = resp.kind
              /\ calls' = Append(calls, Call(step, repo, target.name,
                                   target.color, target.description, 0, "-"))
              /\ lines' = Append(lines,
                                 Line(IF step = "create" THEN "Creating"
                                      ELSE "Updating", repo, target.name))
              /\ mutated' = mutated \cup {target.name}
  /\ ti' = ti + 1
  /\ UNCHANGED << pc, env_token, config_ok, orgListing, listing, target_labels,
                  repos, repoIdx, page, out, existing_labels, extra_labels, li,
                  used_in_issues_or_prs, used_in_discussions, deleted,
                  configReads, repoListCalls, repoPages >>

\* a slip in main / cleanup_labels: the labels are not listed anew, the set
\* sync_labels read is pruned
SyncReturn_NoReread ==
  /\ pc = "sync_loop"
  /\ ti > Len(target_labels)
  /\ extra_labels' = [i \in DOMAIN existing_labels |-> existing_labels[i].name]
  /\ li' = 1
  /\ existing_labels' = << >>
  /\ pc' = "cleanup_loop"
  /\ UNCHANGED << env_token, config_ok, orgListing, listing, target_labels,
                  repos, repoIdx, page, out, api_result, ti,
                  used_in_issues_or_prs, used_in_discussions, calls, lines,
                  mutated, deleted, configReads, repoListCalls, repoPages >>

\* sync_labels returns; main calls cleanup_labels, which lists the labels anew
SyncReturn ==
  /\ pc = "sync_loop"
  /\ ti > Len(target_labels)
  /\ existing_labels' = << >>
  /\ \E l \in LabelListings : listing' = l
  /\ page' = 1
  /\ out' = << >>
  /\ pc' = "cleanup_list"
  /\ UNCHANGED << env_token, config_ok, orgListing, target_labels, repos,
                  repoIdx, api_result, ti, extra_labels, li,
                  used_in_issues_or_prs, used_in_discussions, calls, lines,
                  mutated, deleted, configReads, repoListCalls, repoPages >>

\* cleanup_labels: one page request of list_labels; on the last one,
\* extra_labels = [l["name"] for l in existing_labels if ... not in ...]
CleanupListLabels ==
  /\ pc = "cleanup_list"
  /\ \E resp \in PageResponses(listing, page) :
       LET r == Paged(out, resp) IN
       /\ api_result' = resp.kind
       /\ calls' = Append(calls, Call("list_labels", repo, "", "", "", page,
                                      AnswerKind(resp)))
       /\ IF r.more
          THEN /\ out' = r.items
               /\ page' = page + 1
               /\ UNCHANGED << pc, extra_labels, li >>
          ELSE /\ extra_labels' = ExtraLabels(ListLabels(r),
                                              TargetLabelNames(target_labels))
               /\ li' = 1
               /\ out' = << >>
               /\ page' = 1
               /\ pc' = "cleanup_loop"
  /\ UNCHANGED << env_token, config_ok, orgListing, listing, target_labels, repos,
                  repoIdx, existing_labels, ti, used_in_issues_or_prs,
                  used_in_discussions, lines, mutated, deleted, configReads,
                  repoListCalls, repoPages >>

\* cleanup_labels: used_in_issues_or_prs = has_issues_or_prs(repo, label, t)
CheckIssues ==
  /\ pc = "cleanup_loop"
  /\ li <= Len(extra_labels)
  /\ \E resp \in IssueResponses :
       /\ api_result' = resp.kind
       /\ used_in_issues_or_prs' = HasIssuesOrPrs(resp)
       /\ calls' = Append(calls, Call("issues", repo, extra_labels[li], "", "",
                                      0, HasIssuesOrPrs(resp)))
  /\ listing' = << >>
  /\ pc' = "check_discussions"
  /\ UNCHANGED << env_token, config_ok, orgListing, target_labels,
                  repos, repoIdx, page, out, existing_labels, ti, extra_labels,
                  li, used_in_discussions, lines, mutated, deleted,
                  configReads, repoListCalls, repoPages >>

\* cleanup_labels: used_in_discussions = has_discussions(repo, label, t);
\* an exception raised in has_discussions is caught nowhere
CheckDiscussions ==
  /\ pc = "check_discussions"
  /\ \E resp \in DiscussionResponses :
       /\ api_result' = resp.kind
       /\ IF DiscussionsRaises(resp)
          THEN /\ pc' = "aborted"
               /\ calls' = Append(calls, Call("discussions", repo,
                                    extra_labels[li], "", "", 0, "raised"))
               /\ UNCHANGED used_in_discussions
          ELSE /\ pc' = "decide"
               /\ used_in_discussions' = HasDiscussions(resp)
               /\ calls' = Append(calls, Call("discussions", repo,
                                    extra_labels[li], "", "", 0,
                                    HasDiscussions(resp)))
  /\ UNCHANGED << env_token, config_ok, orgListing, listing, target_labels,
                  repos, repoIdx, page, out, existing_labels, ti, extra_labels,
                  li, used_in_issues_or_prs, lines, mutated, deleted,
                  configReads, repoListCalls, repoPages >>

\* cleanup_labels: the rest of the loop body: skip, delete or keep
Decide ==
  /\ pc = "decide"
  /\ LET label == extra_labels[li]
         d     == Decision(used_in_issues_or_prs, used_in_discussions)
     IN  CASE d = "skip" ->
                /\ lines' = Append(lines, Line("Skipping", repo, label))
                /\ UNCHANGED << calls, deleted, api_result >>
           [] d = "delete" ->
                /\ lines' = Append(lines, Line("Deleting", repo, label))
                /\ \E resp \in MutationResponses : api_result' = resp.kind
                /\ calls' = Append(calls, Call("delete", repo, label, "", "",
                                               0, "-"))
                /\ deleted' = deleted \cup {label}
           [] OTHER ->
                /\ lines' = Append(lines, Line("Keeping", repo, label))
                /\ UNCHANGED << calls, deleted, api_result >>
  /\ li' = li + 1
  /\ pc' = "cleanup_loop"
  /\ UNCHANGED << env_token, config_ok, orgListing, listing, target_labels,
                  repos, repoIdx, page, out, existing_labels, ti, extra_labels,
                  used_in_issues_or_prs, used_in_discussions, mutated,
                  configReads, repoListCalls, repoPages >>

\* cleanup_labels returns (its locals are gone); main's loop moves to the
\* next repository
CleanupReturn ==
  /\ pc = "cleanup_loop"
  /\ li > Len(extra_labels)
  /\ repoIdx' = repoIdx + 1
  /\ extra_labels' = << >>
  /\ li' = 1
  /\ used_in_issues_or_prs' = None
  /\ used_in_discussions' = None
  /\ listing' = << >>
  /\ pc' = "main_loop"
  /\ UNCHANGED << env_token, config_ok, orgListing, target_labels,
                  repos, page, out, api_result, existing_labels, ti,
                  calls, lines, mutated, deleted, configReads, repoListCalls,
                  repoPages >>

Next ==
  \/ Token
  \/ LoadConfig
  \/ ListReposPage
  \/ ProcessRepo
  \/ Done
  \/ SyncListLabels
  \/ SyncLabel
  \/ SyncReturn
  \/ CleanupListLabels
  \/ CheckIssues
  \/ CheckDiscussions
  \/ Decide
  \/ CleanupReturn

Spec == Init /\ [][Next]_vars


\* ------------------------------------------------------------ properties
\* positions in calls of the requests of kind op for label name
CallsOf(op, name) ==
  { i \in DOMAIN calls : calls[i].op = op /\ calls[i].name = name }

\* the loop body of cleanup_labels has finished for the label checked at
\* position i of calls (its discussion check is the request after it)
Decided(i) ==
  /\ i + 1 \in DOMAIN calls
  /\ calls[i + 1].op = "discussions"
  /\ calls[i + 1].result # "raised"
  /\ ~(pc = "decide" /\ i + 1 = Len(calls))

\* C1: a delete request for a label is sent only directly after an issue
\* check and a discussion check of that same label and repository that both
\* returned a definite "no usage"; a label with a check that was
\* indeterminate or that reported usage gets no delete request.
C1_FailSafeGate ==
  /\ \A i \in DOMAIN calls :
       calls[i].op = "delete" =>
         /\ i > 2
         /\ calls[i - 2].op = "issues"
         /\ calls[i - 2].name = calls[i].name
         /\ calls[i - 2].repo = calls[i].repo
         /\ calls[i - 2].result = "False"
         /\ calls[i - 1].op = "discussions"
         /\ calls[i - 1].name = calls[i].name
         /\ calls[i - 1].repo = calls[i].repo
         /\ calls[i - 1].result = "False"
  /\ \A i \in DOMAIN calls :
       /\ calls[i].op \in {"issues", "discussions"}
       /\ calls[i].result \in {None, "True", "raised"}
       => CallsOf("delete", calls[i].name) = {}

\* C1 witness: in one repository a label was deleted after two clean checks
\* and another was left alone because its discussion check was indeterminate
\* although its issue check found nothing
C1_Witness ==
  /\ \E i \in DOMAIN calls : calls[i].op = "delete"
  /\ \E i \in DOMAIN calls :
       /\ Decided(i)
       /\ calls[i].op = "issues" /\ calls[i].result = "False"
       /\ calls[i + 1].result = None
       /\ CallsOf("delete", calls[i].name) = {}

\* C2: over the whole run the names sent in create/update requests and the
\* names sent in delete requests are disjoint: the former are names of the
\* configuration, the latter are not.
C2_CreateDeleteDisjoint ==
  /\ mutated \cap deleted = {}
  /\ mutated \subseteq TargetLabelNames(TargetLabels)
  /\ deleted \cap TargetLabelNames(TargetLabels) = {}

\* C2 witness: a run that has created or updated a label and, after the
\* second listing of a later repository returned a configured name next to
\* an extra one, deleted the extra one
C2_Witness ==
  /\ mutated # {}
  /\ deleted # {}
  /\ repoIdx > 1
  /\ \E i \in DOMAIN calls : calls[i].op = "delete"
  /\ \E i \in DOMAIN calls : calls[i].op \in {"create", "update"}

\* C3: a label of extra_labels whose issue check and discussion check both
\* returned a definite "no usage" gets exactly one delete request in that
\* repository, sent right after the two checks; every label of extra_labels
\* is checked in turn; and after a listing that delivered its page and then
\* ended, extra_labels holds, in listing order, every listed label with a
\* name and a colour whose name is not configured.
C3_UnusedDeletedOnce ==
  /\ \A i \in DOMAIN calls :
       /\ calls[i].op = "issues" /\ calls[i].result = "False"
       /\ Decided(i)
       /\ calls[i + 1].result = "False"
       => /\ Cardinality(CallsOf("delete", calls[i].name)) = 1
          /\ i + 2 \in CallsOf("delete", calls[i].name)
          /\ calls[i + 2].repo = calls[i].repo
  /\ pc = "cleanup_loop" /\ calls[Len(calls)].op = "list_labels"
       /\ calls[Len(calls)].result = "end" /\ calls[Len(calls)].page = 2
     => extra_labels =
          LET keep == { k \in DOMAIN listing :
                          /\ listing[k].name \notin {None, ""}
                          /\ listing[k].color \notin {None, ""}
                          /\ \A t \in DOMAIN TargetLabels :
                               TargetLabels[t].name # listing[k].name }
              kept == PickSeq(listing, keep)
          IN  [k \in DOMAIN kept |-> kept[k].name]
  /\ pc \in {"cleanup_loop", "check_discussions", "decide"}
     => \A j \in 1..Len(extra_labels) :
          j < li => CallsOf("issues", extra_labels[j]) # {}

\* C3 witness: the pruning of a repository with two extra labels is over and
\* both were deleted, one request each
C3_Witness ==
  /\ pc = "cleanup_loop"
  /\ Len(extra_labels) = 2
  /\ li > Len(extra_labels)
  /\ \A j \in 1..2 : Cardinality(CallsOf("delete", extra_labels[j])) = 1


\* create / update requests sent for a configured label
CreatesOf(name) == CallsOf("create", name)
UpdatesOf(name) == CallsOf("update", name)

\* the label entry of the remote listing that list_labels passes on under
\* this name (it has a name and a colour)
Listed(name) ==
  { k \in DOMAIN listing :
      listing[k].name = name /\ listing[k].color \notin {None, ""} }

\* the request at position i carries the target's name, colour, description
Carries(i, target) ==
  /\ calls[i].name = target.name
  /\ calls[i].color = target.color
  /\ calls[i].description = target.description
  /\ calls[i].repo = repo

\* C4: for every configured label already handled by sync_labels whose name
\* is not in the label set sync_labels read, exactly one create request was
\* sent for this repository, carrying the configured name, colour and
\* description, and no update request.
C4_AbsentCreatedOnce ==
  pc = "sync_loop" =>
    \A j \in DOMAIN target_labels :
      /\ j < ti
      /\ \A k \in DOMAIN existing_labels :
           existing_labels[k].name # target_labels[j].name
      => /\ Cardinality(CreatesOf(target_labels[j].name)) = 1
         /\ \A i \in CreatesOf(target_labels[j].name) :
              Carries(i, target_labels[j])
         /\ UpdatesOf(target_labels[j].name) = {}

\* C4 witness: sync_labels is through with a repository whose listing held
\* one configured label and lacked the other, which was created
C4_Witness ==
  /\ pc = "sync_loop"
  /\ ti > Len(target_labels)
  /\ Len(existing_labels) = 2
  /\ \E k \in DOMAIN existing_labels : existing_labels[k].name = "bug"
  /\ \A k \in DOMAIN existing_labels : existing_labels[k].name # "docs"
  /\ Cardinality(CreatesOf("docs")) = 1

\* C5: for every configured label already handled by sync_labels whose name
\* is in the label set sync_labels read: exactly one update request with the
\* configured colour and description was sent if the listed colour differs
\* from the configured one ignoring letter case or the listed description
\* (null counting as "") differs from the configured one; otherwise no
\* update request; and no create request either way.
C5_PresentUpdatedIffDiffers ==
  pc = "sync_loop" =>
    \A j \in DOMAIN target_labels :
      /\ j < ti
      /\ \E k \in DOMAIN existing_labels :
           existing_labels[k].name = target_labels[j].name
      => \A k \in Listed(target_labels[j].name) :
           LET target == target_labels[j]
               desc   == IF listing[k].description \in {None, ""} THEN ""
                         ELSE listing[k].description
               differs == \/ Lower(listing[k].color) # Lower(target.color)
                          \/ desc # target.description
           IN  /\ Listed(target.name) # {}
               /\ CreatesOf(target.name) = {}
               /\ differs =>
                    /\ Cardinality(UpdatesOf(target.name)) = 1
                    /\ \A i \in UpdatesOf(target.name) : Carries(i, target)
               /\ ~differs => UpdatesOf(target.name) = {}

\* C5 witness: sync_labels is through with a repository that listed "bug"
\* with the configured colour in capitals (no request) and "docs" with
\* another description (one update)
C5_Witness ==
  /\ pc = "sync_loop"
  /\ ti > Len(target_labels)
  /\ \E k \in DOMAIN existing_labels :
       /\ existing_labels[k].name = "bug"
       /\ existing_labels[k].color = "D73A4A"
  /\ \E k \in DOMAIN existing_labels :
       /\ existing_labels[k].name = "docs"
       /\ existing_labels[k].description = "Docs"
  /\ UpdatesOf("bug") = {}
  /\ Cardinality(UpdatesOf("docs")) = 1

\* C5 second case: "docs" listed with a null description and the configured
\* colour in the other letter case is left alone
C5_WitnessNullDescription ==
  /\ pc = "sync_loop"
  /\ ti > Len(target_labels)
  /\ \E k \in Listed("docs") : listing[k].description = None
  /\ \E k \in DOMAIN existing_labels : existing_labels[k].name = "docs"
  /\ UpdatesOf("docs") = {}


\* name is the full_name of an entry of the organisation's listing that is
\* not archived
LiveRepo(name) ==
  \E k \in DOMAIN orgListing :
    orgListing[k].full_name = name /\ orgListing[k].archived = "False"

RepoPageFailed == \E i \in DOMAIN repoPages : repoPages[i] = "fail"

\* C6: every repository of repos, and every repository a label request was
\* sent for, is a non-archived entry of a repository listing none of whose
\* page requests failed; when a page request of the repository listing
\* failed (the first or a later one) repos is empty, no label request is
\* sent and the run ends having printed "Done." only.
C6_OnlyLiveListedRepos ==
  /\ \A i \in DOMAIN repos : LiveRepo(repos[i])
  /\ \A i \in DOMAIN calls : LiveRepo(calls[i].repo) /\ ~RepoPageFailed
  /\ \A i \in DOMAIN lines :
       lines[i].kind # "Done" => LiveRepo(lines[i].repo) /\ ~RepoPageFailed
  /\ RepoPageFailed /\ pc # "list_repos"
     => /\ repos = << >>
        /\ calls = << >>
        /\ pc \in {"main_loop", "done"}
        /\ pc = "done" => lines = << Line("Done", "", "") >>

\* C6 witness: the first page of the repository listing delivered a
\* repository that is not archived, the second page request failed, and the
\* run is over without a label request
C6_Witness ==
  /\ pc = "done"
  /\ repoPages = << "batch", "fail" >>
  /\ \E k \in DOMAIN orgListing : orgListing[k].archived = "False"
  /\ \E k \in DOMAIN orgListing : orgListing[k].archived = "True"
  /\ calls = << >>

\* C6 second case: a run over a listing with an archived and a live
\* repository has sent label requests for the live one
C6_WitnessArchivedSkipped ==
  /\ pc = "done"
  /\ \E k \in DOMAIN orgListing : orgListing[k].archived = "True"
  /\ calls # << >>

\* C7: once the credential is present and the configuration is loaded, no
\* answer to a remote call ends the run early: the script is never stopped
\* by an exception, it goes on to the next label and repository.
C7_NoCallAbortsRun ==
  env_token /\ config_ok /\ configReads = 1 => pc # "aborted"

\* the only way the run stops early after the configuration is loaded: the
\* discussion search answered with a JSON value that is not an object
C7_AbortOnlyInDiscussions ==
  pc = "aborted" =>
    /\ calls[Len(calls)].op = "discussions"
    /\ calls[Len(calls)].result = "raised"
    /\ api_result = "list"

\* the line cleanup_labels printed for the label checked at position i
DecisionLines(name) ==
  { k \in DOMAIN lines :
      /\ lines[k].label = name
      /\ lines[k].kind \in {"Skipping", "Deleting", "Keeping"} }

\* C8 as stated: at the end the output holds either the statement that no
\* extra label is in use or a usage report, and every label outside the
\* configuration whose issue check returned a result is reported as kept.
C8_EndOfRunReport ==
  /\ pc = "done" =>
       \E k \in DOMAIN lines : lines[k].kind \in {"NoExtraInUse", "UsageReport"}
  /\ \A i \in DOMAIN calls :
       calls[i].op = "issues" /\ calls[i].result = "True" /\ Decided(i)
       => \E k \in DOMAIN lines :
            lines[k] = Line("Keeping", calls[i].repo, calls[i].name)

\* C8 amended: the run prints no end-of-run summary, its last line is
\* "Done."; while pruning, each checked label gets exactly one line, naming
\* the label and the repository only: "Keeping" exactly when both checks
\* returned a definite result and at least one reported usage, "Skipping"
\* when a check was indeterminate (also when the issue check found a
\* result), "Deleting" otherwise; the lines come in the order of the checks.
C8_KeptLinePerUsedLabel ==
  /\ \A k \in DOMAIN lines :
       lines[k].kind \in {"Processing", "Creating", "Updating", "Skipping",
                          "Deleting", "Keeping", "Done"}
  /\ pc = "done" => lines[Len(lines)].kind = "Done"
  /\ \A k \in DOMAIN lines : lines[k].kind = "Done" => pc = "done" /\ k = Len(lines)
  /\ \A i \in DOMAIN calls :
       calls[i].op = "issues" /\ Decided(i) =>
         LET a == calls[i].result
             b == calls[i + 1].result
             kind == IF a = None \/ b = None THEN "Skipping"
                     ELSE IF a = "True" \/ b = "True" THEN "Keeping"
                     ELSE "Deleting"
         IN  /\ Cardinality(DecisionLines(calls[i].name)) = 1
             /\ \A k \in DecisionLines(calls[i].name) :
                  lines[k] = Line(kind, calls[i].repo, calls[i].name)
  /\ \A i, j \in DOMAIN calls :
       /\ calls[i].op = "issues" /\ calls[j].op = "issues" /\ i < j
       => \A k \in DecisionLines(calls[i].name) :
            \A m \in DecisionLines(calls[j].name) : k < m
  /\ \A k \in DOMAIN lines :
       lines[k].kind \in {"Skipping", "Deleting", "Keeping"}
       => CallsOf("issues", lines[k].label) # {}

\* C8 witness: in one repository a label was kept because a check found it
\* in use, and another, whose issue check found a result too, was skipped
\* because its discussion check was indeterminate; the run then ended
C8_Witness ==
  /\ pc = "done"
  /\ \E k \in DOMAIN lines : lines[k].kind = "Keeping"
  /\ \E i \in DOMAIN calls :
       /\ calls[i].op = "issues" /\ calls[i].result = "True" /\ Decided(i)
       /\ \E k \in DOMAIN lines :
            lines[k] = Line("Skipping", calls[i].repo, calls[i].name)


\* positions in calls where a listing of the labels starts (its page 1)
ListStarts == { i \in DOMAIN calls :
                  calls[i].op = "list_labels" /\ calls[i].page = 1 }

\* position where cleanup_labels' listing starts, 0 before it has started
CleanupStart ==
  IF Cardinality(ListStarts) < 2 THEN 0
  ELSE CHOOSE i \in ListStarts : \A k \in ListStarts : k <= i

\* the repository the requests of calls went to
CurrentIdx == IF pc \in {"main_loop", "done"} THEN repoIdx - 1 ELSE repoIdx

C9_State ==
  /\ configReads <= 1
  /\ repoListCalls <= 1
  /\ calls # << >> =>
       /\ configReads = 1
       /\ repoListCalls = 1
       /\ CurrentIdx \in DOMAIN repos
       /\ \A i \in DOMAIN calls : calls[i].repo = repos[CurrentIdx]
  /\ Cardinality(ListStarts) <= 2
  /\ \A i \in DOMAIN calls :
       calls[i].op \in {"create", "update"} =>
         /\ \E k \in ListStarts : k < i
         /\ CleanupStart # 0 => i < CleanupStart
  /\ \A i \in DOMAIN calls :
       calls[i].op \in {"issues", "discussions", "delete"} =>
         CleanupStart # 0 /\ CleanupStart < i

C9_Step ==
  /\ repoIdx' \in {repoIdx, repoIdx + 1} \/ pc = "list_repos"
  /\ repos' # repos => pc = "list_repos" /\ calls = << >>
  /\ configReads' # configReads => calls = << >> /\ repoListCalls = 0
  /\ repoListCalls' # repoListCalls => calls = << >> /\ configReads = 1
  /\ target_labels' # target_labels => pc = "load_config"
  /\ calls' # calls =>
       \/ calls' = << >> /\ pc = "main_loop"
       \/ /\ Len(calls') = Len(calls) + 1
          /\ SubSeq(calls', 1, Len(calls)) = calls
          /\ repoIdx' = repoIdx
          /\ calls'[Len(calls')].repo = repos[repoIdx]

\* C9: the configuration is read once and the repositories are listed once,
\* before any label request; the requests go to one repository at a time,
\* in the order of repos (the position in repos never goes back while
\* requests are added); within a repository every create/update request
\* comes after sync_labels' listing and before cleanup_labels' listing, and
\* every usage check and delete request comes after cleanup_labels' listing.
C9_CallOrdering == [](C9_State) /\ [][C9_Step]_vars

\* C9 witness: the second repository of the listing is being pruned after
\* labels were created in it
C9_Witness ==
  /\ repoIdx = 2
  /\ Len(repos) = 2
  /\ pc = "cleanup_loop"
  /\ \E i \in DOMAIN calls : calls[i].op = "create"
  /\ \E i \in DOMAIN calls : calls[i].op = "delete"
  /\ "bug" \in mutated

SyncListFailed ==
  \E i \in DOMAIN calls :
    /\ calls[i].op = "list_labels" /\ calls[i].result = "fail"
    /\ CleanupStart = 0 \/ i < CleanupStart

CleanupListFailed ==
  /\ CleanupStart # 0
  /\ \E i \in DOMAIN calls :
       /\ calls[i].op = "list_labels" /\ calls[i].result = "fail"
       /\ i >= CleanupStart

\* C10: when a page request of sync_labels' listing failed, sync_labels works
\* on the empty label set (nothing of earlier pages is kept) and sends one
\* create request per configured label and no update request; when a page
\* request of cleanup_labels' listing failed, extra_labels is empty and no
\* usage check and no delete request is sent for the repository.
C10_FailedListingIsEmpty ==
  /\ SyncListFailed =>
       /\ pc = "sync_loop" => existing_labels = << >>
       /\ \A j \in DOMAIN target_labels :
            \/ pc = "sync_loop" /\ j >= ti
            \/ /\ Cardinality(CreatesOf(target_labels[j].name)) = 1
               /\ UpdatesOf(target_labels[j].name) = {}
  /\ CleanupListFailed =>
       /\ pc = "cleanup_loop" => extra_labels = << >>
       /\ pc \in {"cleanup_loop", "main_loop", "done"}
       /\ \A i \in DOMAIN calls :
            calls[i].op \notin {"issues", "discussions", "delete"}

\* C10 witness: both listings of a repository failed, the second one on its
\* second page after the first page had delivered a configured label and an
\* extra one; two labels were created, nothing was checked
C10_Witness ==
  /\ pc = "cleanup_loop"
  /\ SyncListFailed
  /\ CleanupListFailed
  /\ calls[Len(calls)].page = 2
  /\ \E k \in DOMAIN listing : listing[k].name = "wontfix"
  /\ \E k \in DOMAIN listing : listing[k].name = "bug"
  /\ Cardinality(CreatesOf("bug")) = 1
  /\ Cardinality(CreatesOf("docs")) = 1

====
